---- MODULE Spec2Model ----
(***************************************************************************)
(* State-machine model of the feature-selection demo's reactive callbacks  *)
(* (demo_callbacks.py), the page-load layout they act on                   *)
(* (demo_interface.py, demo_configs.py) and the chart helper they call     *)
(* (src/utils.py).  One browser session is modelled.                       *)
(*                                                                         *)
(* Representation:                                                         *)
(*  - a component property that is absent (Python None) is the value None; *)
(*  - the redundancy slider (0..1 in steps of 0.1) is counted in tenths;   *)
(*  - a class name is the token list that str.split(" ") yields, the empty *)
(*    string being the empty list;                                         *)
(*  - a figure is the record of what the chart code put into it.           *)
(***************************************************************************)
EXTENDS Integers, Sequences, FiniteSets, TLC

VARIABLES
    dataset,           \* dataset.value (dropdown)
    features,          \* features slider: [max, value, marks]
    ui,                \* the component properties named in run_optimization's running=
    soln_score,        \* soln-score.data
    selected_features, \* selected-features.data
    problem_details,   \* problem-details.children
    job_pc,            \* background job of run_optimization: idle, started, solving
    job_args,          \* the Input/State values the job was started with
    solve_call,        \* arguments of the job's call of solve_feature_selection
    completed,         \* the last completed run: data set, solver, time limit, solution, scored list
    last_run,          \* how the last run ended and how often it called the solver
    before_run,        \* the three outputs as they were when the last run started
    pend_features,     \* create_features_input is due
    pend_input,        \* triggers for which draw_input_graph is due
    pend_output,       \* draw_output_graph is due, and whether a completed run made it so
    input_hover,       \* input-graph.hoverData (point index)
    input_redund,      \* input-redund.value (checklist)
    input_graph,       \* input-graph.figure
    input_result,      \* outcome of the last draw_input_graph invocation
    output_hover,      \* output-graph.hoverData (point index)
    results_redund,    \* results-redund.value (checklist)
    output_graph,      \* output-graph.figure
    output_result,     \* outcome of the last draw_output_graph invocation
    collapse_class,    \* className of each to-collapse-class component
    collapse_log       \* class names each component had before its last toggles

vars == <<dataset, features, ui, soln_score, selected_features, problem_details,
          job_pc, job_args, solve_call, completed, last_run, before_run,
          pend_features, pend_input, pend_output,
          input_hover, input_redund, input_graph, input_result,
          output_hover, results_redund, output_graph, output_result,
          collapse_class, collapse_log>>

formVars == <<dataset, features>>
runVars == <<ui, soln_score, selected_features, problem_details, job_pc, job_args,
             solve_call, completed, last_run, before_run>>
inputVars == <<input_hover, input_redund, input_graph, input_result>>
outputVars == <<output_hover, results_redund, output_graph, output_result>>
collapseVars == <<collapse_class, collapse_log>>

None == "None"

Min(a, b) == IF a < b THEN a ELSE b

(***************************************************************************)
(* Bounds of the model.                                                    *)
(***************************************************************************)
\* number of features of the smaller data set
NTitanic == 2
\* longest authored class name, in tokens
MaxTokens == 2

(***************************************************************************)
(* demo_configs.py                                                         *)
(***************************************************************************)
DATA_SETS == <<"titanic", "scene">>
DataSetNames == {DATA_SETS[i] : i \in DOMAIN DATA_SETS}

NFeaturesMax == 10
NFeaturesValue == 5

\* REDUNDANCY: min 0, max 1, step 0.1, counted in tenths
RedundMin == 0
RedundMax == 10
RedundValue == 5
RedundValues == RedundMin..RedundMax

\* SOLVER_TIME: the two ends of the input's range stand for its values
SolverTimeMin == 10
SolverTimeMax == 300
TimeLimits == {SolverTimeMin, SolverTimeMax}

SHOW_REDUNDANCY == <<"Show Redundancy">>

(***************************************************************************)
(* src/demo_enums.py                                                       *)
(***************************************************************************)
CQM == 0
NL == 1
SolverType == {CQM, NL}

SolverLabel(solver_type) ==
    IF solver_type = CQM THEN "Quantum Hybrid (CQM)" ELSE "Quantum Hybrid (NL)"

(***************************************************************************)
(* The DataSet object (data.py).                                           *)
(***************************************************************************)
NScene == NTitanic + 1

\* data.n
DataN(data_set) == IF data_set = "titanic" THEN NTitanic ELSE NScene

RECURSIVE SortedSeq(_)
SortedSeq(S) ==
    IF S = {} THEN <<>>
    ELSE LET m == CHOOSE x \in S : \A y \in S : x <= y
         IN <<m>> \o SortedSeq(S \ {m})

\* What solve_feature_selection can return: an array of feature indices of the
\* data set, each a numpy int64.
Int64(i) == [int64 |-> i]
Solutions(data_set) ==
    { [k \in DOMAIN SortedSeq(S) |-> Int64(SortedSeq(S)[k])] :
        S \in SUBSET (0..(DataN(data_set) - 1)) }

\* score_indices_cv(indices): the cross-validated accuracy, an uninterpreted
\* value determined by the data set and the indices.
ScoreIndicesCv(data_set, indices) == [cv_of |-> indices, on |-> data_set]

(***************************************************************************)
(* demo_interface.py: the page as create_interface lays it out.            *)
(***************************************************************************)
\* The properties run_optimization's running= list drives, at page load.
LayoutUi ==
    ("cancel-button.className" :> "display-none")
    @@ ("run-button.className" :> None)
    @@ ("results-tab.disabled" :> TRUE)
    @@ ("results-tab.label" :> "Results")
    @@ ("tabs.value" :> "input-tab")
    @@ ("run-in-progress.data" :> FALSE)

\* slider(): marks at the two ends of the configured range
SliderMarks(lo, hi) == (lo :> ToString(lo)) @@ (hi :> ToString(hi))

LayoutFeatures ==
    [max |-> NFeaturesMax, value |-> NFeaturesValue, marks |-> SliderMarks(1, NFeaturesMax)]

\* dcc.Store(id="soln-score", data=0.0)
LayoutScore == [float |-> 0]

\* A class name as its token list; a component without className has none.
ClassName(tokens) == [missing |-> FALSE, tokens |-> tokens]
NoClassName == [missing |-> TRUE, tokens |-> <<>>]

\* The to-collapse-class components: the left column (index 0) and
\* problem_details(1).
LayoutCollapse ==
    (0 :> ClassName(<<"left-column">>))
    @@ (1 :> ClassName(<<"details-collapse-wrapper", "collapsed">>))

\* An element with the CSS class display-none is not shown.
Visible(className) == className # "display-none"

\* Variant: the time limit is shown without its unit.
TableRowsNoUnit(solver, time_limit) ==
    << <<"Solver:", solver, "Time Limit:", ToString(time_limit)>> >>

\* One html.Tr of html.Td cells per row, a row being its cells' contents.
generate_problem_details_table_rows(solver, time_limit) ==
    << <<"Solver:", solver, "Time Limit:", ToString(time_limit) \o "s">> >>

(***************************************************************************)
(* demo_callbacks.py: run_optimization, a background callback.             *)
(***************************************************************************)
\* Variant: the store's value for an ended job is left True.
RunningFlagStuck ==
    ("cancel-button.className" :> [on |-> "", off |-> "display-none"])
    @@ ("run-button.className" :> [on |-> "display-none", off |-> ""])
    @@ ("results-tab.disabled" :> [on |-> TRUE, off |-> FALSE])
    @@ ("results-tab.label" :> [on |-> "Loading...", off |-> "Results"])
    @@ ("tabs.value" :> [on |-> "input-tab", off |-> "input-tab"])
    @@ ("run-in-progress.data" :> [on |-> TRUE, off |-> TRUE])

\* running=[(Output, value while running, value when the job has ended)]
Running ==
    ("cancel-button.className" :> [on |-> "", off |-> "display-none"])
    @@ ("run-button.className" :> [on |-> "display-none", off |-> ""])
    @@ ("results-tab.disabled" :> [on |-> TRUE, off |-> FALSE])
    @@ ("results-tab.label" :> [on |-> "Loading...", off |-> "Results"])
    @@ ("tabs.value" :> [on |-> "input-tab", off |-> "input-tab"])
    @@ ("run-in-progress.data" :> [on |-> TRUE, off |-> FALSE])

\* Variant: the run button's entry is missing from running=.
RunningOnKeepsRunButton(u) ==
    [k \in DOMAIN u |->
        IF k \in DOMAIN Running \ {"run-button.className"} THEN Running[k].on ELSE u[k]]

\* Variant: the tabs' entry is missing from the values set while running.
RunningOnKeepsTab(u) ==
    [k \in DOMAIN u |->
        IF k \in DOMAIN Running \ {"tabs.value"} THEN Running[k].on ELSE u[k]]

RunningOn(u) == [k \in DOMAIN u |-> IF k \in DOMAIN Running THEN Running[k].on ELSE u[k]]
RunningOff(u) == [k \in DOMAIN u |-> IF k \in DOMAIN Running THEN Running[k].off ELSE u[k]]

\* solver = "cqm" if solver_type is SolverType.CQM else "nl"
SolverName(solver_type) == IF solver_type = CQM THEN "cqm" ELSE "nl"

\* Variant: the penalty itself is passed as the redundancy weight.
SolveArgsPenalty(a) ==
    [data_set |-> a.data_set,
     num_features |-> a.num_features,
     redundancy_weight |-> a.redund_penalty,
     time_limit |-> a.time_limit,
     solver |-> SolverName(a.solver_type)]

\* data.solve_feature_selection(num_features, 1.0 - redund_penalty, time_limit, solver)
\* on DataSet(data_set): the call as the solver receives it.
SolveArgs(a) ==
    [data_set |-> a.data_set,
     num_features |-> a.num_features,
     redundancy_weight |-> RedundMax - a.redund_penalty,
     time_limit |-> a.time_limit,
     solver |-> SolverName(a.solver_type)]

\* solution = [int(i) for i in solution]
IntList(solution) == [k \in DOMAIN solution |-> solution[k].int64]

\* The list score_indices_cv is called with.
ScoreArg(solution) == IntList(solution)

\* RunOptimizationReturn(score, features, problem_details_table)
RunOptimizationReturn(a, solution) ==
    [score |-> ScoreIndicesCv(a.data_set, ScoreArg(solution)),
     features |-> IntList(solution),
     problem_details_table |->
        generate_problem_details_table_rows(SolverLabel(a.solver_type), a.time_limit)]

Outputs == [score |-> soln_score, features |-> selected_features,
            problem_details_table |-> problem_details]

\* A click on run-button: the framework reads the State values, starts the
\* background job and applies the running values.
RunClick(solver_type, time_limit, redund_penalty) ==
    /\ job_pc = "idle"
    /\ Visible(ui["run-button.className"])
    /\ job_pc' = "started"
    /\ job_args' = <<[solver_type |-> solver_type, time_limit |-> time_limit,
                      num_features |-> features.value,
                      redund_penalty |-> redund_penalty, data_set |-> dataset]>>
    /\ ui' = RunningOn(ui)
    /\ solve_call' = <<>>
    /\ before_run' = <<Outputs>>
    /\ last_run' = [end |-> "running", calls |-> 0]
    /\ UNCHANGED <<soln_score, selected_features, problem_details, completed>>
    /\ UNCHANGED <<formVars, pend_features, pend_input, pend_output, inputVars,
                   outputVars, collapseVars>>

\* The user sets the solver form as they like before clicking.
ClickRun ==
    \E st \in SolverType, tl \in TimeLimits, rp \in RedundValues : RunClick(st, tl, rp)

\* The user picks a solver and a time limit and leaves the redundancy slider.
ClickRunSolver ==
    \E st \in SolverType, tl \in TimeLimits : RunClick(st, tl, RedundValue)

\* The user clicks with the solver form as the page loaded it.
ClickRunDefaults == RunClick(CQM, SolverTimeMin, RedundValue)

\* The job reaches line 257 and calls the solver.
CallSolve ==
    /\ job_pc = "started"
    /\ job_pc' = "solving"
    /\ solve_call' = Append(solve_call, SolveArgs(job_args[1]))
    /\ last_run' = [last_run EXCEPT !.calls = @ + 1]
    /\ UNCHANGED <<ui, soln_score, selected_features, problem_details, job_args,
                   completed, before_run>>
    /\ UNCHANGED <<formVars, pend_features, pend_input, pend_output, inputVars,
                   outputVars, collapseVars>>

\* Variant: a cancelled job leaves the running values in place.
JobEndsCancelKeepsRunning(how) ==
    /\ job_pc' = "idle"
    /\ job_args' = <<>>
    /\ ui' = IF how = "cancelled" THEN ui ELSE RunningOff(ui)
    /\ last_run' = [last_run EXCEPT !.end = how]
    /\ solve_call' = <<>>
    /\ before_run' = IF how = "completed" THEN <<>> ELSE before_run

\* The job has ended, one way or another: the running values are taken back.
JobEnds(how) ==
    /\ job_pc' = "idle"
    /\ job_args' = <<>>
    /\ ui' = RunningOff(ui)
    /\ last_run' = [last_run EXCEPT !.end = how]
    /\ solve_call' = <<>>
    /\ before_run' = IF how = "completed" THEN <<>> ELSE before_run

dataset_of_job == IF job_args = <<>> THEN dataset ELSE job_args[1].data_set

\* The solver returns; lines 259-273 run and the framework writes the three
\* Outputs, which makes draw_output_graph due.
SolveReturnsIn(solutions) ==
    /\ job_pc = "solving"
    /\ \E solution \in solutions :
        LET r == RunOptimizationReturn(job_args[1], solution) IN
        /\ soln_score' = r.score
        /\ selected_features' = r.features
        /\ problem_details' = r.problem_details_table
        /\ completed' = <<[data_set |-> job_args[1].data_set,
                            solver_type |-> job_args[1].solver_type,
                            time_limit |-> job_args[1].time_limit,
                            solution |-> solution, scored |-> ScoreArg(solution)]>>
    /\ JobEnds("completed")
    /\ pend_output' = [due |-> TRUE, run |-> TRUE]
    /\ UNCHANGED <<formVars, pend_features, pend_input, inputVars, outputVars,
                   collapseVars>>

SolveReturns == SolveReturnsIn(Solutions(dataset_of_job))

\* The solver returns every feature of the data set.
SolveReturnsAll ==
    SolveReturnsIn({s \in Solutions(dataset_of_job) : Len(s) = DataN(dataset_of_job)})

\* Variant: the call is tried again after an exception.
SolveRaisesRetry ==
    /\ job_pc = "solving"
    /\ job_pc' = "started"
    /\ UNCHANGED <<ui, soln_score, selected_features, problem_details, job_args,
                   solve_call, completed, last_run, before_run>>
    /\ UNCHANGED <<formVars, pend_features, pend_input, pend_output, inputVars,
                   outputVars, collapseVars>>

\* The solver raises: nothing in run_optimization catches it.
SolveRaises ==
    /\ job_pc = "solving"
    /\ JobEnds("error")
    /\ UNCHANGED <<soln_score, selected_features, problem_details, completed>>
    /\ UNCHANGED <<formVars, pend_features, pend_input, pend_output, inputVars,
                   outputVars, collapseVars>>

\* cancel=[Input("cancel-button", "n_clicks")]: the job is terminated.
ClickCancel ==
    /\ job_pc \in {"started", "solving"}
    /\ Visible(ui["cancel-button.className"])
    /\ JobEnds("cancelled")
    /\ UNCHANGED <<soln_score, selected_features, problem_details, completed>>
    /\ UNCHANGED <<formVars, pend_features, pend_input, pend_output, inputVars,
                   outputVars, collapseVars>>

(***************************************************************************)
(* The form and the tabs, as the user works them.                          *)
(***************************************************************************)
\* dcc.Tab(id="results-tab") is given no value: the second tab's default.
ResultsTabValue == "tab-2"

\* The user picks the other data set: create_features_input and
\* draw_input_graph have dataset.value as an Input.
ChangeDataset ==
    /\ \E data_set \in DataSetNames \ {dataset} : dataset' = data_set
    /\ pend_features' = TRUE
    /\ pend_input' = pend_input \cup {"dataset"}
    /\ UNCHANGED <<features, runVars, pend_output, inputVars, outputVars, collapseVars>>

\* The user moves the features slider (positions above the larger data set's
\* feature count are not explored).
SetFeatures ==
    /\ \E v \in 1..Min(features.max, NScene) :
        /\ v # features.value
        /\ features' = [features EXCEPT !.value = v]
    /\ UNCHANGED <<dataset, runVars, pend_features, pend_input, pend_output,
                   inputVars, outputVars, collapseVars>>

\* The user selects a tab that is not disabled.
SelectTab ==
    /\ \E t \in {"input-tab", ResultsTabValue} \ {ui["tabs.value"]} :
        /\ t = ResultsTabValue => ~ui["results-tab.disabled"]
        /\ ui' = [ui EXCEPT !["tabs.value"] = t]
    /\ UNCHANGED <<formVars, soln_score, selected_features, problem_details, job_pc,
                   job_args, solve_call, completed, last_run, before_run,
                   pend_features, pend_input, pend_output, inputVars, outputVars,
                   collapseVars>>

(***************************************************************************)
(* demo_callbacks.py: create_features_input                                *)
(***************************************************************************)
\* Variant: floor division, max_feat // 2.
RoundHalfFloor(n) == n \div 2

\* round(max_feat / 2): Python rounds a tie to the even neighbour.
RoundHalf(n) ==
    IF n % 2 = 0 THEN n \div 2
    ELSE IF (n \div 2) % 2 = 0 THEN n \div 2 ELSE (n \div 2) + 1

FeaturesInput(data_set) ==
    LET max_feat == DataN(data_set) IN
    [max |-> max_feat, value |-> RoundHalf(max_feat),
     marks |-> (1 :> "1") @@ (max_feat :> ToString(max_feat))]

create_features_input ==
    /\ pend_features
    /\ pend_features' = FALSE
    /\ features' = FeaturesInput(dataset)
    /\ UNCHANGED <<dataset, runVars, pend_input, pend_output, inputVars, outputVars,
                   collapseVars>>

(***************************************************************************)
(* src/utils.py                                                            *)
(***************************************************************************)
Range(f) == {f[k] : k \in DOMAIN f}

Raised(exception) == [raised |-> exception, figure |-> <<>>]
Returned(fig) == [raised |-> "", figure |-> <<fig>>]

\* An empty list and None are both falsy and both read as "no solution"; hover
\* data is <<>> for None and otherwise holds the hovered point.
draw_bar_chart(hover_data, selected, data_set, show_redundancy) ==
    LET n == DataN(data_set)
        columns0 == {"Feature", "Feature Relevance"}
        \* opacity[selected] = 1.0 on an array of len(df) entries
        in_range == \A k \in DOMAIN selected : selected[k] < n
        with_red == hover_data # <<>> /\ show_redundancy # <<>>
        idx == hover_data[1].pointIndex
        \* lines 71-77: the Redundancy column is set only under idx < data.n
        columns == IF with_red /\ idx < n THEN columns0 \cup {"Redundancy"}
                   ELSE columns0
    IN  IF ~in_range THEN Raised("IndexError")
        ELSE IF with_red
             THEN IF "Redundancy" \in columns   \* line 79 reads df["Redundancy"]
                  THEN Returned([data_set |-> data_set, bars |-> n,
                                 solid |-> selected,
                                 color |-> <<"redundancy", idx>>])
                  ELSE Raised("KeyError")
             ELSE Returned([data_set |-> data_set, bars |-> n,
                            solid |-> selected,
                            color |-> <<"blue", 0>>])

draw_accuracy_bars(data_set, selected, score) ==
    [x |-> <<ToString(DataN(data_set)), ToString(Len(selected))>>,
     y |-> <<[round2 |-> [baseline_cv_score |-> data_set]], [round2 |-> score]>>]

(***************************************************************************)
(* demo_callbacks.py: draw_input_graph                                     *)
(***************************************************************************)
\* ctx.triggered_id: None for the call at page load
TriggeredId(trigger) == IF trigger = "load" THEN None ELSE trigger

PreventsUpdate(trigger, show_red) ==
    TriggeredId(trigger) = "input-graph" /\ show_red = <<>>

draw_input_graph ==
    \E trigger \in pend_input :
        /\ pend_input' = pend_input \ {trigger}
        /\ IF PreventsUpdate(trigger, input_redund)
           THEN /\ input_result' = [trigger |-> trigger, outcome |-> "PreventUpdate",
                                    loaded |-> FALSE, hover |-> input_hover,
                                    show_red |-> input_redund, data_set |-> dataset]
                /\ UNCHANGED input_graph
           ELSE LET r == draw_bar_chart(input_hover, <<>>, dataset, input_redund) IN
                /\ input_result' = [trigger |-> trigger,
                                    outcome |-> IF r.raised = "" THEN "figure" ELSE r.raised,
                                    loaded |-> TRUE, hover |-> input_hover,
                                    show_red |-> input_redund, data_set |-> dataset]
                /\ input_graph' = IF r.raised = "" THEN r.figure ELSE input_graph
        /\ UNCHANGED <<formVars, runVars, pend_features, pend_output, input_hover,
                       input_redund, outputVars, collapseVars>>

\* The mouse moves over a bar of the figure on show; hoverData keeps the last
\* point until the next hover.
HoverInput ==
    /\ input_graph # <<>>
    /\ ui["tabs.value"] = "input-tab"
    /\ \E idx \in 0..(input_graph[1].bars - 1) :
        /\ input_hover # <<[pointIndex |-> idx]>>
        /\ input_hover' = <<[pointIndex |-> idx]>>
    /\ pend_input' = pend_input \cup {"input-graph"}
    /\ UNCHANGED <<formVars, runVars, pend_features, pend_output, input_redund,
                   input_graph, input_result, outputVars, collapseVars>>

ToggleInputRedund ==
    /\ ui["tabs.value"] = "input-tab"
    /\ input_redund' = IF input_redund = <<>> THEN SHOW_REDUNDANCY ELSE <<>>
    /\ pend_input' = pend_input \cup {"input-redund"}
    /\ UNCHANGED <<formVars, runVars, pend_features, pend_output, input_hover,
                   input_graph, input_result, outputVars, collapseVars>>

(***************************************************************************)
(* demo_callbacks.py: draw_output_graph                                    *)
(***************************************************************************)
NotDue == [due |-> FALSE, run |-> FALSE]

draw_output_graph ==
    /\ pend_output.due
    /\ pend_output' = NotDue
    /\ LET fig1 == draw_bar_chart(output_hover, selected_features, dataset, results_redund)
           fig2 == draw_accuracy_bars(dataset, selected_features, soln_score)
       IN /\ output_result' =
                [after_run |-> pend_output.run,
                 outcome |-> IF fig1.raised = "" THEN "figure" ELSE fig1.raised]
          /\ output_graph' =
                IF fig1.raised = ""
                THEN <<[features |-> fig1.figure[1], accuracy |-> fig2]>>
                ELSE output_graph
    /\ UNCHANGED <<formVars, runVars, pend_features, pend_input, inputVars,
                   output_hover, results_redund, collapseVars>>

HoverOutput ==
    /\ output_graph # <<>>
    /\ ui["tabs.value"] = ResultsTabValue
    /\ \E idx \in 0..(output_graph[1].features.bars - 1) :
        /\ output_hover # <<[pointIndex |-> idx]>>
        /\ output_hover' = <<[pointIndex |-> idx]>>
    /\ pend_output' = [pend_output EXCEPT !.due = TRUE]
    /\ UNCHANGED <<formVars, runVars, pend_features, pend_input, inputVars,
                   results_redund, output_graph, output_result, collapseVars>>

ToggleResultsRedund ==
    /\ ui["tabs.value"] = ResultsTabValue
    /\ results_redund' = IF results_redund = <<>> THEN SHOW_REDUNDANCY ELSE <<>>
    /\ pend_output' = [pend_output EXCEPT !.due = TRUE]
    /\ UNCHANGED <<formVars, runVars, pend_features, pend_input, inputVars,
                   output_hover, output_graph, output_result, collapseVars>>

(***************************************************************************)
(* demo_callbacks.py: toggle_left_column                                   *)
(***************************************************************************)
\* str.split(" ") of a non-empty string, and " ".join of a token list
Split(c) == c.tokens
Join(tokens) == IF tokens = <<"">> THEN <<>> ELSE tokens

\* list.remove: the first occurrence goes
RECURSIVE Remove(_, _)
Remove(tokens, t) ==
    IF tokens = <<>> THEN <<>>
    ELSE IF Head(tokens) = t THEN Tail(tokens)
    ELSE <<Head(tokens)>> \o Remove(Tail(tokens), t)

Truthy(c) == ~c.missing /\ c.tokens # <<>>

\* Variant: adding the class drops the tokens that were there.
ToggleClassOnly(to_collapse_class) ==
    LET classes == IF Truthy(to_collapse_class) THEN Split(to_collapse_class) ELSE <<>>
    IN  IF "collapsed" \in Range(classes)
        THEN ClassName(Join(Remove(classes, "collapsed")))
        ELSE ClassName(<<"collapsed">>)

ToggleClass(to_collapse_class) ==
    LET classes == IF Truthy(to_collapse_class) THEN Split(to_collapse_class) ELSE <<>>
    IN  IF "collapsed" \in Range(classes)
        THEN ClassName(Join(Remove(classes, "collapsed")))
        ELSE IF Truthy(to_collapse_class)
             THEN ClassName(to_collapse_class.tokens \o <<"collapsed">>)
             ELSE ClassName(<<"collapsed">>)

\* A click on the collapse-trigger with the same index.
toggle_left_column ==
    \E i \in DOMAIN collapse_class :
        /\ collapse_class' = [collapse_class EXCEPT ![i] = ToggleClass(@)]
        /\ collapse_log' = [collapse_log EXCEPT
                               ![i] = IF Len(@) < 2 THEN Append(@, collapse_class[i])
                                      ELSE <<@[2], collapse_class[i]>>]
        /\ UNCHANGED <<formVars, runVars, pend_features, pend_input, pend_output,
                       inputVars, outputVars>>

(***************************************************************************)
(* The session.                                                            *)
(***************************************************************************)
\* Page load: the layout's values; the callbacks without prevent_initial_call
\* are due once.
PageLoad ==
    /\ dataset = DATA_SETS[1]
    /\ features = LayoutFeatures
    /\ ui = LayoutUi
    /\ soln_score = LayoutScore
    /\ selected_features = <<>>
    /\ problem_details = <<>>
    /\ job_pc = "idle"
    /\ job_args = <<>>
    /\ solve_call = <<>>
    /\ completed = <<>>
    /\ last_run = [end |-> "none", calls |-> 0]
    /\ before_run = <<>>
    /\ pend_features = TRUE
    /\ pend_input = {"load"}
    /\ pend_output = [due |-> TRUE, run |-> FALSE]
    /\ input_hover = <<>>
    /\ input_redund = <<>>
    /\ input_graph = <<>>
    /\ input_result = [trigger |-> "", outcome |-> "none", loaded |-> FALSE,
                       hover |-> <<>>, show_red |-> <<>>, data_set |-> ""]
    /\ output_hover = <<>>
    /\ results_redund = <<>>
    /\ output_graph = <<>>
    /\ output_result = [after_run |-> FALSE, outcome |-> "none"]
    /\ collapse_log = [i \in DOMAIN LayoutCollapse |-> <<>>]

Init ==
    /\ PageLoad
    /\ collapse_class = LayoutCollapse

\* toggle_left_column on a component of any layout: a class name is missing,
\* empty, or authored tokens with 'collapsed', if present, as the last one.
AuthoredTokens == {"left-column", "details-collapse-wrapper"}
AuthoredSeqs == UNION {[1..n -> AuthoredTokens] : n \in 0..MaxTokens}
ClassNames ==
    {NoClassName} \cup {ClassName(ts) : ts \in AuthoredSeqs}
    \cup {ClassName(ts \o <<"collapsed">>) : ts \in AuthoredSeqs}

InitToggle ==
    /\ PageLoad
    /\ collapse_class \in [DOMAIN LayoutCollapse -> ClassNames]

NextToggle == toggle_left_column

SpecToggle == InitToggle /\ [][NextToggle]_vars

\* The form, the run button and the background job.
Next ==
    \/ ChangeDataset
    \/ create_features_input
    \/ SelectTab
    \/ ClickRunSolver
    \/ CallSolve
    \/ SolveReturns
    \/ SolveRaises
    \/ ClickCancel

Spec == Init /\ [][Next]_vars

\* The Input tab: the data set, the checklist, the mouse and draw_input_graph.
NextGraph ==
    \/ ChangeDataset
    \/ HoverInput
    \/ ToggleInputRedund
    \/ draw_input_graph

SpecGraph == Init /\ [][NextGraph]_vars

\* A run with the solver form as loaded, and the Results tab.
NextOutput ==
    \/ ChangeDataset
    \/ SelectTab
    \/ ClickRunDefaults
    \/ CallSolve
    \/ SolveReturns
    \/ HoverOutput
    \/ ToggleResultsRedund
    \/ draw_output_graph

SpecOutput == Init /\ [][NextOutput]_vars

\* The whole form and the arguments the solver is called with.
NextForm ==
    \/ ChangeDataset
    \/ create_features_input
    \/ SetFeatures
    \/ ClickRun
    \/ CallSolve
    \/ SolveReturnsAll
    \/ SolveRaises
    \/ ClickCancel

SpecForm == Init /\ [][NextForm]_vars

(***************************************************************************)
(* The claims.                                                             *)
(***************************************************************************)
JobRunning == job_pc \in {"started", "solving"}

\* C1: the run-in-progress store is True exactly when a run_optimization job
\* is running: False at page load, True from the start of a run, False again
\* once the run has ended by completion, error or cancel.
C1_RunInProgress ==
    /\ ui["run-in-progress.data"] = JobRunning
    /\ last_run.end \in {"none", "completed", "error", "cancelled"}
        => ~ui["run-in-progress.data"]

\* A run is calling the solver, with the store set.
C1_Witness == job_pc = "solving" /\ ui["run-in-progress.data"]

\* C2: after a click on cancel-button during a run, soln-score,
\* selected-features and problem-details have the values they had before that
\* run started, and the running outputs are back at their off values.
C2_CancelRestores ==
    (job_pc = "idle" /\ last_run.end = "cancelled") =>
        /\ before_run # <<>>
        /\ Outputs = before_run[1]
        /\ ui["run-in-progress.data"] = FALSE
        /\ ui["run-button.className"] = ""
        /\ ui["cancel-button.className"] = "display-none"
        /\ ui["results-tab.disabled"] = FALSE
        /\ ui["results-tab.label"] = "Results"

\* A run was cancelled while the solver was working, after an earlier run had
\* written its results.
C2_Witness ==
    /\ job_pc = "idle"
    /\ last_run = [end |-> "cancelled", calls |-> 1]
    /\ selected_features # <<>>

\* C3: when solve_feature_selection raises, the run ends with the exception
\* and no second call: the solver is called at most once per Run click, and
\* soln-score, selected-features and problem-details are as before the run.
C3_RaisePropagates ==
    /\ last_run.calls <= 1
    /\ last_run.end = "error" =>
        /\ job_pc = "idle"
        /\ last_run.calls = 1
        /\ before_run # <<>>
        /\ Outputs = before_run[1]

\* A run ended with the solver's exception, after an earlier run had written
\* its results.
C3_Witness == last_run.end = "error" /\ selected_features # <<>>

\* C4: exactly one of run-button and cancel-button is visible: the cancel
\* button (className '') while a run is running, with the run button hidden
\* (className 'display-none'); the run button at page load and after a run.
C4_OneButton ==
    /\ Visible(ui["run-button.className"]) # Visible(ui["cancel-button.className"])
    /\ IF JobRunning
       THEN /\ ui["cancel-button.className"] = ""
            /\ ui["run-button.className"] = "display-none"
       ELSE /\ Visible(ui["run-button.className"])
            /\ ui["cancel-button.className"] = "display-none"

\* A run is under way and only the cancel button shows.
C4_Witness ==
    /\ job_pc = "started"
    /\ Visible(ui["cancel-button.className"])
    /\ ~Visible(ui["run-button.className"])

\* The call the claim describes for a run started with arguments a.
CallHasArgs(call, a) ==
    /\ call.data_set = a.data_set
    /\ call.num_features = a.num_features
    /\ call.redundancy_weight = RedundMax - a.redund_penalty
    /\ call.redundancy_weight \in 0..RedundMax
    /\ call.time_limit = a.time_limit
    /\ a.solver_type \in {0, 1}
    /\ call.solver = IF a.solver_type = 0 THEN "cqm" ELSE "nl"

CallsAreAsClicked ==
    /\ job_pc = "started" => solve_call = <<>>
    /\ job_pc = "solving" =>
        /\ Len(solve_call) = 1
        /\ last_run.calls = 1
        /\ CallHasArgs(solve_call[1], job_args[1])

\* C5 as stated: every Run click leads to exactly one call of
\* solve_feature_selection, whichever way the run ends, with the arguments
\* read at the click.
C5_ExactlyOnce ==
    /\ CallsAreAsClicked
    /\ last_run.end \in {"completed", "error", "cancelled"} => last_run.calls = 1

\* C5, amended: each Run click leads to at most one call of
\* solve_feature_selection, and to exactly one unless the run is cancelled
\* before the call is made; the call is for the data set selected at the click,
\* with the features slider value, 1 minus the redundancy penalty (within
\* [0, 1] for every slider value), the time limit, and 'cqm' for solver type 0
\* or 'nl' for 1.
C5_AtMostOnce ==
    /\ CallsAreAsClicked
    /\ last_run.calls <= 1
    /\ last_run.end \in {"completed", "error"} => last_run.calls = 1

\* The solver is working for a data set the dropdown has since left, called
\* with weight 0 for the slider at its maximum.
C5_Witness ==
    /\ job_pc = "solving"
    /\ job_args[1].data_set # dataset
    /\ job_args[1].redund_penalty = RedundMax
    /\ solve_call[1].redundancy_weight = 0
    /\ solve_call[1].solver = "nl"

\* C6: soln-score, selected-features and problem-details are either all at
\* their page-load values or all from the same completed run: the solver's
\* solution as ints, score_indices_cv of exactly that list, and one row
\* 'Solver:', the run's solver label, 'Time Limit:', '<time_limit>s'.
C6_WrittenTogether ==
    IF completed = <<>>
    THEN /\ soln_score = [float |-> 0]
         /\ selected_features = <<>>
         /\ problem_details = <<>>
    ELSE LET run == completed[1] IN
         /\ DOMAIN selected_features = DOMAIN run.solution
         /\ \A k \in DOMAIN run.solution : selected_features[k] = run.solution[k].int64
         /\ run.scored = selected_features
         /\ soln_score = [cv_of |-> selected_features, on |-> run.data_set]
         /\ problem_details =
              << <<"Solver:",
                   IF run.solver_type = 0 THEN "Quantum Hybrid (CQM)"
                   ELSE "Quantum Hybrid (NL)",
                   "Time Limit:",
                   ToString(run.time_limit) \o "s">> >>

\* A run with the NL solver and the longest time limit completed, and a later
\* run was cancelled.
C6_Witness ==
    /\ completed # <<>>
    /\ Len(selected_features) = 2
    /\ problem_details = << <<"Solver:", "Quantum Hybrid (NL)", "Time Limit:", "300s">> >>
    /\ last_run.end = "cancelled"

\* C7: draw_input_graph raises PreventUpdate, without loading the data set,
\* exactly when the trigger is input-graph's hoverData and the checklist is
\* empty; on every other invocation it returns a redrawn figure.
C7_PreventUpdateOrFigure ==
    input_result.outcome # "none" =>
        IF input_result.trigger = "input-graph" /\ input_result.show_red = <<>>
        THEN input_result.outcome = "PreventUpdate" /\ ~input_result.loaded
        ELSE input_result.outcome = "figure" /\ input_result.loaded

\* C9: for hover data whose pointIndex is >= data.n, with redundancy display
\* on, draw_bar_chart returns a figure without raising.
C9_LargerDataSetHover ==
    ( /\ input_result.loaded
      /\ input_result.show_red # <<>>
      /\ input_result.hover # <<>>
      /\ input_result.hover[1].pointIndex >= DataN(input_result.data_set) )
    => input_result.outcome = "figure"

\* C8: the draw_output_graph invocation that follows a completed run renders
\* output-graph from the stored features and score and the selected data set.
C8_DrawnAfterRun ==
    [][ (pend_output.due /\ pend_output.run /\ ~pend_output'.due) =>
            /\ output_graph' # <<>>
            /\ output_graph'[1].features.solid = selected_features
            /\ output_graph'[1].features.data_set = dataset
            /\ output_graph'[1].accuracy.y[2] = [round2 |-> soln_score]
            /\ output_graph'[1].accuracy.x[2] = ToString(Len(selected_features)) ]_vars

\* C10: toggle_left_column flips the presence of 'collapsed' only: it removes
\* the token where it is present and appends it where it is not (also for an
\* empty or missing class name), keeps every other token in order, and two
\* toggles in a row give back the original token list.
WithoutCollapsed(tokens) == SelectSeq(tokens, LAMBDA t : t # "collapsed")

C10_ToggleFlips ==
    \A i \in DOMAIN collapse_class :
        collapse_log[i] # <<>> =>
            LET before == collapse_log[i][Len(collapse_log[i])].tokens
                after == collapse_class[i].tokens
            IN  /\ ~collapse_class[i].missing
                /\ ("collapsed" \in Range(after)) # ("collapsed" \in Range(before))
                /\ WithoutCollapsed(after) = WithoutCollapsed(before)
                /\ after = IF "collapsed" \in Range(before)
                           THEN WithoutCollapsed(before)
                           ELSE before \o <<"collapsed">>
                /\ Len(collapse_log[i]) = 2 => after = collapse_log[i][1].tokens

\* The problem-details wrapper of the layout was toggled open and closed again,
\* and a component without class name was toggled twice.
C10_Witness ==
    /\ collapse_log[1] = <<LayoutCollapse[1], ClassName(<<"details-collapse-wrapper">>)>>
    /\ collapse_class[1] = LayoutCollapse[1]
    /\ collapse_log[0] = <<NoClassName, ClassName(<<"collapsed">>)>>
    /\ collapse_class[0] = ClassName(<<>>)

\* C11: create_features_input is due at page load and after every change of
\* the dataset dropdown, and when it runs for a data set of n features it sets
\* the features slider's max to n, its value to n / 2 rounded to the nearest
\* integer (a tie to the even one), and its marks to the two positions 1 and
\* n, labelled '1' and str(n).  The rounding is also checked on every count
\* up to the slider's configured maximum, where 5 and 9 tie to the even
\* integer below.
C11_FeaturesInput ==
    /\ pend_features = TRUE
    /\ \A n \in 2..NFeaturesMax :
          /\ 2 * RoundHalf(n) - n \in {-1, 0, 1}
          /\ 2 * RoundHalf(n) # n => RoundHalf(n) % 2 = 0
    /\ [][ /\ dataset' # dataset => pend_features'
           /\ (pend_features /\ ~pend_features') =>
                LET n == DataN(dataset)
                    v == features'.value
                IN  /\ features'.max = n
                    /\ 2 * v - n \in {-1, 0, 1}
                    /\ 2 * v # n => v % 2 = 0
                    /\ DOMAIN features'.marks = {1, n}
                    /\ Cardinality(DOMAIN features'.marks) = 2
                    /\ features'.marks[1] = "1"
                    /\ features'.marks[n] = ToString(n) ]_vars

\* The dropdown went to the scene data set with the callback since run: the
\* slider ends at its feature count and stands on the rounded half, an odd
\* count's tie.
C11_Witness ==
    /\ ~pend_features
    /\ dataset = "scene"
    /\ features.max = DataN("scene")
    /\ features.max % 2 = 1
    /\ 2 * features.value = features.max + 1
    /\ DOMAIN features.marks = {1, DataN("scene")}

\* C12: whenever the Results tab is disabled the selected tab is input-tab.
\* Starting a run selects input-tab, disables the Results tab and labels it
\* 'Loading...', and that holds for as long as the job runs; the step that
\* ends the run enables the tab again under the label 'Results' with
\* input-tab still selected.
C12_ResultsTab ==
    /\ [](ui["results-tab.disabled"] => ui["tabs.value"] = "input-tab")
    /\ [](JobRunning => /\ ui["tabs.value"] = "input-tab"
                        /\ ui["results-tab.disabled"]
                        /\ ui["results-tab.label"] = "Loading...")
    /\ [][ /\ (~JobRunning /\ JobRunning') =>
                /\ ui'["tabs.value"] = "input-tab"
                /\ ui'["results-tab.disabled"]
                /\ ui'["results-tab.label"] = "Loading..."
           /\ (JobRunning /\ ~JobRunning') =>
                /\ ui'["tabs.value"] = "input-tab"
                /\ ~ui'["results-tab.disabled"]
                /\ ui'["results-tab.label"] = "Results" ]_vars

\* A run is in progress after an earlier one completed and enabled the
\* Results tab: the tab is disabled again, reads 'Loading...', and input-tab
\* is selected.
C12_Witness ==
    /\ JobRunning
    /\ completed # <<>>
    /\ ui["results-tab.disabled"]
    /\ ui["results-tab.label"] = "Loading..."
    /\ ui["tabs.value"] = "input-tab"

====
